---------------------------- MODULE Spec2Model ----------------------------
(*************************************************************************)
(* Model of EnergyEfficientCPUScheduler/cpu_scheduler_core.py: the five  *)
(* simulate_* dispatch policies building a Gantt timeline from a static  *)
(* list of processes.  One behaviour of the model is one call of one     *)
(* policy; one step is one iteration of the policy's while loop.         *)
(*************************************************************************)
EXTENDS Integers, Sequences, FiniteSets

(* ---------------------------- bounds --------------------------------- *)
MaxProcs == 3
MaxArrival == 2
MaxTotalBurst == 4
MaxPriority == 1
MaxQuantum == 2
CrowdSize == 6

(* GanttEntry.pid of an idle interval (Python None); process ids are 1..n *)
None == 0

Algorithms == {"FCFS", "SJF", "PRIORITY", "RR", "EERR"}
Strategies == {"always_high", "energy_aware"}
RRFamily == {"RR", "EERR"}

VARIABLES
    algo,        \* which simulate_* function was called
    strategy,    \* the freq_strategy argument
    quantum,     \* the quantum argument (read by the RR family only)
    processes,   \* the processes argument, in input order
    procs,       \* procs / procs_by_arrival: processes sorted by arrival_time
    time,        \* the simulation clock
    gantt,       \* the timeline built so far
    ready,       \* the ready list
    i,           \* number of entries of procs admitted so far
    remaining,   \* simulate_rr: pid -> remaining burst time
    completed,   \* simulate_rr: set of completed pids
    pc,          \* "loop" at the head of the while loop, "done" after return
    result       \* the SimulationResult returned, <<>> until then

vars == <<algo, strategy, quantum, processes, procs, time, gantt, ready, i,
          remaining, completed, pc, result>>

(* ---------------------------- data model ----------------------------- *)
Process(pid, arrival_time, burst_time, priority) ==
    [pid |-> pid, arrival_time |-> arrival_time,
     burst_time |-> burst_time, priority |-> priority]

GanttEntry(pid, start, end, freq_level) ==
    [pid |-> pid, start |-> start, end |-> end, freq_level |-> freq_level]

(* ---------------------------- energy model --------------------------- *)
always_high_strategy(queue_len, t, a) == "high"

StrictThresholds(queue_len, t, a) ==
    IF queue_len < 2 THEN "low"
    ELSE IF queue_len < 5 THEN "med"
    ELSE "high"

NeverScalesDown(queue_len, t, a) == "high"

energy_aware_strategy(queue_len, t, a) ==
    IF queue_len <= 2 THEN "low"
    ELSE IF queue_len <= 5 THEN "med"
    ELSE "high"

freq_strategy(s, queue_len, t, a) ==
    IF s = "energy_aware" THEN energy_aware_strategy(queue_len, t, a)
    ELSE always_high_strategy(queue_len, t, a)

(* ---------------------------- helpers -------------------------------- *)
Min(a, b) == IF a <= b THEN a ELSE b
Max(a, b) == IF a >= b THEN a ELSE b

(* Python's sorted()/list.sort() is stable: an element goes after every   *)
(* element with a smaller key and after the equal-keyed ones before it.   *)
(* StableOrder(keys)[r] is the index of the element that comes r-th.      *)
ReversedTiesOrder(keys) ==
    LET rank(j) == Cardinality({k \in 1..Len(keys) :
                       \/ keys[k] < keys[j]
                       \/ keys[k] = keys[j] /\ k > j}) + 1
    IN [r \in 1..Len(keys) |-> CHOOSE j \in 1..Len(keys) : rank(j) = r]

StableOrder(keys) ==
    LET rank(j) == Cardinality({k \in 1..Len(keys) :
                       \/ keys[k] < keys[j]
                       \/ keys[k] = keys[j] /\ k < j}) + 1
    IN [r \in 1..Len(keys) |-> CHOOSE j \in 1..Len(keys) : rank(j) = r]

SortByKeys(s, keys) == [r \in 1..Len(s) |-> s[StableOrder(keys)[r]]]

(* sorted(processes, key=lambda p: p.arrival_time) *)
ArrivalSort(ps) == SortByKeys(ps, [k \in 1..Len(ps) |-> ps[k].arrival_time])

(* mutants of the admission loop: every process admitted at once, and   *)
(* "<" for "<="                                                          *)
RECURSIVE AdmitAll(_, _, _, _)
AdmitAll(ps, rdy, idx, t) ==
    IF idx < Len(ps)
    THEN AdmitAll(ps, Append(rdy, ps[idx + 1]), idx + 1, t)
    ELSE [ready |-> rdy, i |-> idx]

RECURSIVE AdmitStrictlyEarlier(_, _, _, _)
AdmitStrictlyEarlier(ps, rdy, idx, t) ==
    IF idx < Len(ps) /\ ps[idx + 1].arrival_time < t
    THEN AdmitStrictlyEarlier(ps, Append(rdy, ps[idx + 1]), idx + 1, t)
    ELSE [ready |-> rdy, i |-> idx]

(* while i < len(procs) and procs[i].arrival_time <= time: append, i += 1 *)
RECURSIVE AdmitArrivals(_, _, _, _)
AdmitArrivals(ps, rdy, idx, t) ==
    IF idx < Len(ps) /\ ps[idx + 1].arrival_time <= t
    THEN AdmitArrivals(ps, Append(rdy, ps[idx + 1]), idx + 1, t)
    ELSE [ready |-> rdy, i |-> idx]

(* ---------------------------- inputs --------------------------------- *)
Arrivals == 0..MaxArrival
Bursts == 1..MaxTotalBurst
Quanta == 1..MaxQuantum

(* priority is read by simulate_priority only; elsewhere the dataclass    *)
(* default 0 stands for every value                                       *)
Priorities(a) == IF a = "PRIORITY" THEN 0..MaxPriority ELSE {0}

(* quantum is a parameter of the RR family only (default 2)               *)
QuantaOf(a, qs) == IF a \in RRFamily THEN qs ELSE {2}

(* simulate_energy_efficient fixes the strategy; the other policies take  *)
(* it as an argument                                                      *)
StrategiesOf(a) == IF a = "EERR" THEN {"energy_aware"} ELSE Strategies

(* State at the head of the while loop, first time round: the locals set  *)
(* up by the function's preamble.                                         *)
RECURSIVE SumTo(_, _)
SumTo(f, n) == IF n = 0 THEN 0 ELSE f[n] + SumTo(f, n - 1)

(* the burst times of n processes: a workload of at most MaxTotalBurst    *)
Workloads(n, bs) == {bt \in [1..n -> bs] : SumTo(bt, n) <= MaxTotalBurst}

Preamble(a, s, q, input) ==
    LET sorted == ArrivalSort(input)
    IN /\ algo = a
       /\ strategy = s
       /\ quantum = q
       /\ processes = input
       /\ procs = sorted
       /\ time = IF sorted # <<>> THEN sorted[1].arrival_time ELSE 0
       /\ gantt = <<>>
       /\ ready = <<>>
       /\ i = 0
       /\ remaining = IF a \in RRFamily
                      THEN [k \in 1..Len(input) |-> input[k].burst_time]
                      ELSE <<>>
       /\ completed = {}
       /\ pc = "loop"
       /\ result = <<>>

Entry(as, bs, qs) ==
    \E a \in Algorithms, n \in 0..MaxProcs :
      \E bt \in Workloads(n, bs), s \in StrategiesOf(a), q \in QuantaOf(a, qs),
         at \in [1..n -> as], pr \in [1..n -> Priorities(a)] :
        Preamble(a, s, q, [k \in 1..n |-> Process(k, at[k], bt[k], pr[k])])

Init == Entry(Arrivals, Bursts, Quanta)

(* ---------------------------- metrics ------------------------------- *)
(* power drawn at a frequency level *)
POWER_LEVELS(level) ==
    CASE level = "low" -> 10
      [] level = "med" -> 18
      [] level = "high" -> 30

(* A Python float quotient a / b, kept as the exact fraction. *)
Ratio(num, den) == [num |-> num, den |-> den]

(* total / n if n else 0.0 *)
AverageUnguarded(total, n) == Ratio(total, n)

Average(total, n) == IF n # 0 THEN Ratio(total, n) ELSE Ratio(0, 1)

(* An optional time is <<>> for Python's None and <<t>> for a value t.     *)
(* The first loop of compute_metrics over gantt[k..], st the state dict.   *)
RECURSIVE ScanGantt(_, _, _)
ScanGantt(st, g, k) ==
    IF k > Len(g) THEN st
    ELSE IF g[k].pid = None THEN ScanGantt(st, g, k + 1)
    ELSE LET old == st[g[k].pid]
             new == [start |-> IF old.start = <<>> THEN <<g[k].start>>
                               ELSE old.start,
                     completion |-> <<g[k].end>>,
                     response |-> IF old.response = <<>> THEN <<g[k].start>>
                                  ELSE old.response]
         IN ScanGantt([st EXCEPT ![g[k].pid] = new], g, k + 1)

(* the state dict after the scan; pids are the positions of the input *)
MetricsState(ps, g) ==
    ScanGantt([p \in 1..Len(ps) |->
                  [start |-> <<>>, completion |-> <<>>, response |-> <<>>]],
              g, 1)

TurnaroundOf(p, st) == st.completion[1] - p.arrival_time

WaitingWithoutBurst(p, st) == TurnaroundOf(p, st)

WaitingOf(p, st) == TurnaroundOf(p, st) - p.burst_time

ResponseAsTurnaround(p, st) == TurnaroundOf(p, st)

ResponseOf(p, st) ==
    IF st.response # <<>> THEN st.response[1] - p.arrival_time
    ELSE WaitingOf(p, st)

(* the second loop: the totals over processes[1..k], a process without a  *)
(* completion skipped                                                     *)
RECURSIVE MetricsTotals(_, _, _)
MetricsTotals(ps, st, k) ==
    IF k = 0 THEN [wait |-> 0, turn |-> 0, resp |-> 0]
    ELSE LET sofar == MetricsTotals(ps, st, k - 1)
             me == st[ps[k].pid]
         IN IF me.completion = <<>> THEN sofar
            ELSE [wait |-> sofar.wait + WaitingOf(ps[k], me),
                  turn |-> sofar.turn + TurnaroundOf(ps[k], me),
                  resp |-> sofar.resp + ResponseOf(ps[k], me)]

(* sum(e.end - e.start for e in gantt if e.pid is not None) *)
RECURSIVE BusyTime(_, _)
BusyTime(g, k) ==
    IF k = 0 THEN 0
    ELSE BusyTime(g, k - 1)
         + (IF g[k].pid = None THEN 0 ELSE g[k].end - g[k].start)

(* the energy loop over gantt[1..k] *)
RECURSIVE EnergyCountingIdle(_, _)
EnergyCountingIdle(g, k) ==
    IF k = 0 THEN 0
    ELSE EnergyCountingIdle(g, k - 1)
         + POWER_LEVELS(g[k].freq_level) * (g[k].end - g[k].start)

RECURSIVE TotalEnergy(_, _)
TotalEnergy(g, k) ==
    IF k = 0 THEN 0
    ELSE TotalEnergy(g, k - 1)
         + (IF g[k].pid = None THEN 0
            ELSE POWER_LEVELS(g[k].freq_level) * (g[k].end - g[k].start))

CpuUtilization(g) ==
    LET start_time == IF g # <<>> THEN g[1].start ELSE 0
        end_time == IF g # <<>> THEN g[Len(g)].end ELSE 0
    IN IF end_time > start_time
       THEN Ratio(BusyTime(g, Len(g)) * 100, end_time - start_time)
       ELSE Ratio(0, 1)

compute_metrics(ps, g, algo_name) ==
    LET n == Len(ps)
        totals == MetricsTotals(ps, MetricsState(ps, g), n)
    IN [algorithm |-> algo_name,
        gantt |-> g,
        avg_waiting_time |-> Average(totals.wait, n),
        avg_turnaround_time |-> Average(totals.turn, n),
        avg_response_time |-> Average(totals.resp, n),
        cpu_utilization |-> CpuUtilization(g),
        total_energy |-> TotalEnergy(g, Len(g))]

(* the algo_name local of the function called *)
AlgoName ==
    CASE algo = "FCFS" -> "FCFS"
      [] algo = "SJF" -> "SJF (Non-preemptive)"
      [] algo = "PRIORITY" -> "Priority (Non-preemptive)"
      [] algo = "RR" -> "Round Robin"
      [] algo = "EERR" -> "Energy-Efficient RR"

(* ---------------------------- loop bodies ---------------------------- *)
(* The "if not ready" branch shared by the four loops: one idle entry up  *)
(* to the next arrival, always tagged 'low'.                              *)
IdleEntryAtStrategy(t, next_arrival) ==
    GanttEntry(None, t, next_arrival, freq_strategy(strategy, 0, t, algo))

IdleEntry(t, next_arrival) == GanttEntry(None, t, next_arrival, "low")

IdleStep(adm) ==
    LET next_arrival == procs[adm.i + 1].arrival_time
    IN /\ gantt' = Append(gantt, IdleEntry(time, next_arrival))
       /\ time' = next_arrival
       /\ ready' = adm.ready
       /\ i' = adm.i
       /\ UNCHANGED <<algo, strategy, quantum, processes, procs, remaining,
                      completed, pc, result>>

RunPreempted(rdy, idx, algo_name) ==
    LET current == Head(rdy)
        rest == Tail(rdy)
        start == Max(time, current.arrival_time)
        end == start + Min(current.burst_time, quantum)
        queue_len == Len(rest) + 1
        freq == freq_strategy(strategy, queue_len, time, algo_name)
    IN /\ gantt' = Append(gantt, GanttEntry(current.pid, start, end, freq))
       /\ time' = end
       /\ ready' = rest
       /\ i' = idx
       /\ UNCHANGED <<algo, strategy, quantum, processes, procs, remaining,
                      completed, pc, result>>

(* current = ready.pop(0) and the run-to-completion entry of the three    *)
(* non-preemptive loops; rdy is the ready list after the policy's sort.   *)
RunToCompletion(rdy, idx, algo_name) ==
    LET current == Head(rdy)
        rest == Tail(rdy)
        start == Max(time, current.arrival_time)
        end == start + current.burst_time
        queue_len == Len(rest) + 1
        freq == freq_strategy(strategy, queue_len, time, algo_name)
    IN /\ gantt' = Append(gantt, GanttEntry(current.pid, start, end, freq))
       /\ time' = end
       /\ ready' = rest
       /\ i' = idx
       /\ UNCHANGED <<algo, strategy, quantum, processes, procs, remaining,
                      completed, pc, result>>

(* the condition of the while loop *)
LoopGoesOn ==
    IF algo \in RRFamily
    THEN Cardinality(completed) < Len(processes)
    ELSE i < Len(procs) \/ ready # <<>>

(* the ready list and i after the admission loop at the top of the body *)
Admitted == AdmitArrivals(procs, ready, i, time)

(* return compute_metrics(processes, gantt, algo_name) *)
Return ==
    /\ pc' = "done"
    /\ result' = compute_metrics(processes, gantt, AlgoName)
    /\ UNCHANGED <<algo, strategy, quantum, processes, procs, time, gantt,
                   ready, i, remaining, completed>>

(* ---------------------------- FCFS ----------------------------------- *)
FcfsIdle ==
    /\ pc = "loop" /\ algo = "FCFS"
    /\ LoopGoesOn
    /\ Admitted.ready = <<>>
    /\ IdleStep(Admitted)

FcfsDispatch ==
    /\ pc = "loop" /\ algo = "FCFS"
    /\ LoopGoesOn
    /\ Admitted.ready # <<>>
    /\ RunToCompletion(Admitted.ready, Admitted.i, "FCFS")

FcfsReturn ==
    /\ pc = "loop" /\ algo = "FCFS"
    /\ ~LoopGoesOn
    /\ Return

(* ---------------------------- SJF ------------------------------------ *)
SjfUnsorted(rdy) == rdy

(* ready.sort(key=lambda p: p.burst_time) *)
SjfSort(rdy) == SortByKeys(rdy, [k \in 1..Len(rdy) |-> rdy[k].burst_time])

SjfIdle ==
    /\ pc = "loop" /\ algo = "SJF"
    /\ LoopGoesOn
    /\ Admitted.ready = <<>>
    /\ IdleStep(Admitted)

SjfDispatch ==
    /\ pc = "loop" /\ algo = "SJF"
    /\ LoopGoesOn
    /\ Admitted.ready # <<>>
    /\ RunToCompletion(SjfSort(Admitted.ready), Admitted.i,
                       "SJF (Non-preemptive)")

SjfReturn ==
    /\ pc = "loop" /\ algo = "SJF"
    /\ ~LoopGoesOn
    /\ Return

(* ---------------------------- Priority ------------------------------- *)
PrioritySortDescending(rdy) ==
    SortByKeys(rdy, [k \in 1..Len(rdy) |-> 0 - rdy[k].priority])

(* ready.sort(key=lambda p: p.priority) *)
PrioritySort(rdy) == SortByKeys(rdy, [k \in 1..Len(rdy) |-> rdy[k].priority])

PriorityIdle ==
    /\ pc = "loop" /\ algo = "PRIORITY"
    /\ LoopGoesOn
    /\ Admitted.ready = <<>>
    /\ IdleStep(Admitted)

PriorityDispatch ==
    /\ pc = "loop" /\ algo = "PRIORITY"
    /\ LoopGoesOn
    /\ Admitted.ready # <<>>
    /\ RunToCompletion(PrioritySort(Admitted.ready), Admitted.i,
                       "Priority (Non-preemptive)")

PriorityReturn ==
    /\ pc = "loop" /\ algo = "PRIORITY"
    /\ ~LoopGoesOn
    /\ Return

(* ---------------------------- Round Robin ---------------------------- *)
(* the algo_name argument of simulate_rr *)
RrName == IF algo = "EERR" THEN "Energy-Efficient RR" ELSE "Round Robin"

(* A run with quantum <= 0 never leaves the loop and appends without end; *)
(* the model follows it up to GanttCap entries.                           *)
GanttCap == MaxTotalBurst + 2 * MaxProcs

ExecTimeIgnoresRemaining(q, rem) == q

ExecTime(q, rem) == Min(q, rem)

RrIdle ==
    /\ pc = "loop" /\ algo \in RRFamily
    /\ LoopGoesOn
    /\ Admitted.ready = <<>> /\ Admitted.i < Len(procs)
    /\ IdleStep(Admitted)

(* The locals of simulate_rr as one record. *)
RrLocals(t, g, rdy, idx, rem, done) ==
    [time |-> t, gantt |-> g, ready |-> rdy, i |-> idx, remaining |-> rem,
     completed |-> done]

(* The end of a slice: the arrivals up to its end join the ready list,   *)
(* then the process that ran joins it when it has time left.             *)
RequeueBeforeArrivals(ps, rest, idx, end, current, left) ==
    AdmitArrivals(ps, IF left > 0 THEN Append(rest, current) ELSE rest,
                  idx, end)

AfterSlice(ps, rest, idx, end, current, left) ==
    LET late == AdmitArrivals(ps, rest, idx, end)
    IN [ready |-> IF left > 0 THEN Append(late.ready, current)
                  ELSE late.ready,
        i |-> late.i]

(* One slice, from ready.pop(0) to the end of the loop body; L holds the *)
(* locals after the admission loop at the top of the body.               *)
RrSlice(L, ps, q, s, algo_name) ==
    LET current == Head(L.ready)
        rest == Tail(L.ready)
        pid == current.pid
        exec_time == ExecTime(q, L.remaining[pid])
        queue_len == Len(rest) + 1
        freq == freq_strategy(s, queue_len, L.time, algo_name)
        start == L.time
        end == L.time + exec_time
        left == L.remaining[pid] - exec_time
        after == AfterSlice(ps, rest, L.i, end, current, left)
    IN RrLocals(end, Append(L.gantt, GanttEntry(pid, start, end, freq)),
                after.ready, after.i,
                [L.remaining EXCEPT ![pid] = left],
                IF left > 0 THEN L.completed ELSE L.completed \cup {pid})

RrDispatch ==
    /\ pc = "loop" /\ algo \in RRFamily
    /\ LoopGoesOn
    /\ Len(gantt) < GanttCap
    /\ Admitted.ready # <<>>
    /\ LET L == RrSlice(RrLocals(time, gantt, Admitted.ready, Admitted.i,
                                 remaining, completed),
                        procs, quantum, strategy, RrName)
       IN /\ gantt' = L.gantt
          /\ remaining' = L.remaining
          /\ time' = L.time
          /\ i' = L.i
          /\ ready' = L.ready
          /\ completed' = L.completed
          /\ UNCHANGED <<algo, strategy, quantum, processes, procs, pc,
                         result>>

(* the "break" of an empty ready list with nothing left to arrive *)
RrBreaks == LoopGoesOn /\ Admitted.ready = <<>> /\ ~(Admitted.i < Len(procs))

RrReturn ==
    /\ pc = "loop" /\ algo \in RRFamily
    /\ ~LoopGoesOn \/ RrBreaks
    /\ Return

(* ------------------- simulate_rr as a function ----------------------- *)
(* The while loop of simulate_rr run from the locals L to its exit (or   *)
(* to GanttCap entries); ps is procs_by_arrival.                         *)
RECURSIVE RrLoop(_, _, _, _, _)
RrLoop(L, ps, q, s, algo_name) ==
    IF ~(Cardinality(L.completed) < Len(ps)) \/ ~(Len(L.gantt) < GanttCap)
    THEN L
    ELSE LET adm == AdmitArrivals(ps, L.ready, L.i, L.time)
         IN IF adm.ready = <<>>
            THEN IF adm.i < Len(ps)
                 THEN LET next_arrival == ps[adm.i + 1].arrival_time
                      IN RrLoop(RrLocals(next_arrival,
                                         Append(L.gantt,
                                                IdleEntry(L.time,
                                                          next_arrival)),
                                         adm.ready, adm.i, L.remaining,
                                         L.completed),
                                ps, q, s, algo_name)
                 ELSE L
            ELSE RrLoop(RrSlice(RrLocals(L.time, L.gantt, adm.ready, adm.i,
                                         L.remaining, L.completed),
                                ps, q, s, algo_name),
                        ps, q, s, algo_name)

simulate_rr(input, q, s, algo_name) ==
    LET procs_by_arrival == ArrivalSort(input)
        first == IF procs_by_arrival # <<>>
                 THEN procs_by_arrival[1].arrival_time ELSE 0
        L == RrLoop(RrLocals(first, <<>>, <<>>, 0,
                             [k \in 1..Len(input) |-> input[k].burst_time],
                             {}),
                    procs_by_arrival, q, s, algo_name)
    IN compute_metrics(input, L.gantt, algo_name)

(* the delegation with the quantum left at simulate_rr's default *)
EnergyEfficientAtDefaultQuantum(input, q) ==
    simulate_rr(input, 2, "energy_aware", "Energy-Efficient RR")

simulate_energy_efficient(input, q) ==
    simulate_rr(input, q, "energy_aware", "Energy-Efficient RR")

Next ==
    \/ FcfsIdle \/ FcfsDispatch \/ FcfsReturn
    \/ SjfIdle \/ SjfDispatch \/ SjfReturn
    \/ PriorityIdle \/ PriorityDispatch \/ PriorityReturn
    \/ RrIdle \/ RrDispatch \/ RrReturn

Spec == Init /\ [][Next]_vars

(* Calls with malformed arguments too: nothing in the five functions     *)
(* inspects arrival_time, burst_time or quantum before the loop starts.   *)
AnyArrivals == (0 - 1)..MaxArrival
AnyBursts == 0..MaxTotalBurst
AnyQuanta == (0 - 1)..MaxQuantum

InitAny == Entry(AnyArrivals, AnyBursts, AnyQuanta)

SpecAny == InitAny /\ [][Next]_vars

(* The demonstration of run_cli_demo, P1..P4 as pids 1..4: the five      *)
(* functions on demo_procs, the strategy at its default, quantum 2.       *)
demo_procs ==
    <<Process(1, 0, 7, 2), Process(2, 2, 4, 1), Process(3, 4, 1, 3),
      Process(4, 5, 4, 2)>>

DefaultStrategy(a) == IF a = "EERR" THEN "energy_aware" ELSE "always_high"

run_cli_demo == \E a \in Algorithms : Preamble(a, DefaultStrategy(a), 2, demo_procs)

(* A crowd: CrowdSize unit jobs that arrive at time 0 or 1, enough for a  *)
(* ready list beyond both thresholds of energy_aware_strategy.            *)
CrowdArrivals == 0..1

InitCrowd ==
    \E a \in RRFamily, q \in Quanta, at \in [1..CrowdSize -> CrowdArrivals] :
      \E s \in StrategiesOf(a) :
        Preamble(a, s, q, [k \in 1..CrowdSize |-> Process(k, at[k], 1, 0)])

InitScenarios == Init \/ run_cli_demo \/ InitCrowd

SpecScenarios == InitScenarios /\ [][Next]_vars

(* ====================== properties of the timeline ==================== *)
Pids == 1..Len(processes)
Slots == 1..Len(gantt)
Occupied == {k \in Slots : gantt[k].pid # None}
IdleSlots == {k \in Slots : gantt[k].pid = None}
EntriesOf(p) == {k \in Slots : gantt[k].pid = p}
Duration(k) == gantt[k].end - gantt[k].start

(* time process p has been given in the first k entries of the timeline *)
RECURSIVE ExecutedUpTo(_, _)
ExecutedUpTo(p, k) ==
    IF k = 0 THEN 0
    ELSE (IF gantt[k].pid = p THEN Duration(k) ELSE 0) + ExecutedUpTo(p, k - 1)

TotalBurst == SumTo([p \in Pids |-> processes[p].burst_time], Len(processes))

(* p comes before q in arrival order, input order deciding equal arrivals *)
ArrivalOrderBefore(p, q) ==
    \/ processes[p].arrival_time < processes[q].arrival_time
    \/ processes[p].arrival_time = processes[q].arrival_time /\ p < q

(* C1: conservation -- in the timeline a policy returns, every process    *)
(* occupies at least one entry and the durations of its entries add up to *)
(* its burst_time exactly.                                                *)
Conservation ==
    pc = "done" =>
        \A p \in Pids :
            /\ EntriesOf(p) # {}
            /\ ExecutedUpTo(p, Len(gantt)) = processes[p].burst_time

ConservationWitness ==
    /\ pc = "done" /\ algo \in RRFamily /\ Len(processes) = MaxProcs
    /\ \E p \in Pids : Cardinality(EntriesOf(p)) >= 2
    /\ IdleSlots # {}

(* C2: well-formedness -- every entry has end > start, entries are in     *)
(* order of start, and each entry starts where the previous one ended.    *)
WellFormedTimeline ==
    /\ \A k \in Slots : gantt[k].end > gantt[k].start
    /\ \A k \in Slots \ {Len(gantt)} :
          /\ gantt[k].end = gantt[k + 1].start
          /\ gantt[k].start < gantt[k + 1].start

WellFormedWitness ==
    /\ pc = "done" /\ Len(gantt) >= 4
    /\ \E k \in IdleSlots : 1 < k /\ k < Len(gantt)

(* C3: no occupied entry of a process starts before its arrival_time.     *)
NoRunBeforeArrival ==
    \A k \in Occupied : gantt[k].start >= processes[gantt[k].pid].arrival_time

NoRunBeforeArrivalWitness ==
    /\ pc = "done"
    /\ \E k \in Occupied :
          /\ processes[gantt[k].pid].arrival_time > processes[procs[1].pid].arrival_time
          /\ gantt[k].start = processes[gantt[k].pid].arrival_time
    /\ \E k \in Occupied : gantt[k].start > processes[gantt[k].pid].arrival_time

ValidInput ==
    /\ \A k \in 1..Len(processes) :
          processes[k].arrival_time >= 0 /\ processes[k].burst_time > 0
    /\ algo \in RRFamily => quantum >= 1

(* C5: a call with a non-positive burst time, a negative arrival time or  *)
(* (RR family) a non-positive quantum produces no timeline entry.         *)
MalformedRejected == ~ValidInput => gantt = <<>>

(* C6: termination with a step bound -- the loop always has a next step   *)
(* until it returns and every step adds one entry; FCFS, SJF and Priority *)
(* make at most N dispatches and the RR family at most                    *)
(* total_burst/quantum + N; there are at most N idle entries; the RR      *)
(* family leaves the loop by its condition only, with every remaining     *)
(* time zero and all N processes in the completed set.                    *)
NumDispatches == Cardinality(Occupied)

TerminatesWithinBound ==
    /\ pc = "loop" /\ LoopGoesOn =>
          Admitted.ready # <<>> \/ Admitted.i < Len(procs)
    /\ Cardinality(IdleSlots) <= Len(processes)
    /\ algo \notin RRFamily => NumDispatches <= Len(processes)
    /\ algo \in RRFamily =>
          /\ NumDispatches * quantum <= TotalBurst + Len(processes) * quantum
          /\ pc = "loop" /\ LoopGoesOn => Len(gantt) < GanttCap
          /\ pc = "loop" => ~RrBreaks
          /\ \A p \in Pids : remaining[p] >= 0
          /\ completed = {p \in Pids : remaining[p] = 0}
          /\ pc = "done" => completed = Pids

TerminatesWitness ==
    /\ pc = "done" /\ algo \in RRFamily /\ Len(processes) = MaxProcs
    /\ quantum = 1 /\ NumDispatches = TotalBurst /\ TotalBurst = MaxTotalBurst
    /\ IdleSlots # {}

(* C7: FCFS dispatches in arrival order, processes of equal arrival_time  *)
(* in the order of the input list.                                        *)
FcfsOrder ==
    algo = "FCFS" =>
        \A j, k \in Occupied :
            j < k => ArrivalOrderBefore(gantt[j].pid, gantt[k].pid)

FcfsOrderWitness ==
    /\ algo = "FCFS" /\ pc = "done"
    /\ \E j, k \in Occupied :
          /\ j < k /\ gantt[j].pid > gantt[k].pid
    /\ \E j, k \in Occupied :
          /\ j < k
          /\ processes[gantt[j].pid].arrival_time = processes[gantt[k].pid].arrival_time

(* the processes that have arrived by the start of entry k and have not   *)
(* been dispatched before it                                              *)
WaitingAt(k) ==
    {q \in Pids : /\ processes[q].arrival_time <= gantt[k].start
                  /\ \A j \in 1..(k - 1) : gantt[j].pid # q}

(* C8: every SJF dispatch takes a process of smallest burst_time among    *)
(* those that have arrived and were not yet dispatched, the earliest in   *)
(* arrival order among those of that burst_time.                          *)
SjfSelection ==
    algo = "SJF" =>
        \A k \in Occupied :
            LET p == gantt[k].pid
            IN \A q \in WaitingAt(k) \ {p} :
                  \/ processes[p].burst_time < processes[q].burst_time
                  \/ /\ processes[p].burst_time = processes[q].burst_time
                     /\ ArrivalOrderBefore(p, q)

(* a tie between two processes that were both in the ready list when it *)
(* was sorted for the dispatch before                                    *)
SjfSelectionWitness ==
    /\ algo = "SJF" /\ pc = "done" /\ Len(processes) = MaxProcs
    /\ \E k \in Occupied \ {1} : \E q \in WaitingAt(k) \ {gantt[k].pid} :
          /\ processes[gantt[k].pid].burst_time = processes[q].burst_time
          /\ {gantt[k].pid, q} \subseteq WaitingAt(k - 1)
          /\ gantt[k - 1].pid # None

(* C9: every Priority dispatch takes a process of smallest priority value *)
(* among those that have arrived and were not yet dispatched, the         *)
(* earliest in arrival order among those of that priority.                *)
PrioritySelection ==
    algo = "PRIORITY" =>
        \A k \in Occupied :
            LET p == gantt[k].pid
            IN \A q \in WaitingAt(k) \ {p} :
                  \/ processes[p].priority < processes[q].priority
                  \/ /\ processes[p].priority = processes[q].priority
                     /\ ArrivalOrderBefore(p, q)

PrioritySelectionWitness ==
    /\ algo = "PRIORITY" /\ pc = "done" /\ Len(processes) = MaxProcs
    /\ \E k \in Occupied : \E q \in WaitingAt(k) :
          /\ processes[gantt[k].pid].priority < processes[q].priority
          /\ ArrivalOrderBefore(q, gantt[k].pid)
    /\ \E k \in Occupied : \E q \in WaitingAt(k) \ {gantt[k].pid} :
          /\ k > 1
          /\ processes[gantt[k].pid].priority = processes[q].priority
          /\ processes[gantt[k].pid].arrival_time < processes[q].arrival_time

(* the processes that have arrived by the end of entry j and still have   *)
(* time left then: the ready queue once the process of entry j is back in *)
ReadyAfter(j) ==
    {q \in Pids : /\ processes[q].arrival_time <= gantt[j].end
                  /\ ExecutedUpTo(q, j) < processes[q].burst_time}

(* entries j < k are consecutive slices of the same process *)
ConsecutiveSlices(j, k) ==
    /\ j < k /\ gantt[j].pid # None /\ gantt[j].pid = gantt[k].pid
    /\ \A m \in (j + 1)..(k - 1) : gantt[m].pid # gantt[j].pid

(* C10: RR fairness -- between the end of a slice and the start of the    *)
(* same process's next slice at most (n-1)*quantum time units pass, n the *)
(* number of ready processes when it was put back in the queue.           *)
RrFairness ==
    algo \in RRFamily =>
        \A j, k \in Slots :
            ConsecutiveSlices(j, k) =>
                gantt[k].start - gantt[j].end
                    <= (Cardinality(ReadyAfter(j)) - 1) * quantum

RrFairnessWitness ==
    /\ algo \in RRFamily /\ quantum < MaxQuantum
    /\ \E j, k \in Slots :
          /\ ConsecutiveSlices(j, k)
          /\ Cardinality(ReadyAfter(j)) = MaxProcs
          /\ gantt[k].start - gantt[j].end = (MaxProcs - 1) * quantum

(* ====================== energy and metrics ============================ *)
(* processes arrived and unfinished when entry k begins: the ready queue *)
(* with the process about to run                                          *)
QueueLenAt(k) ==
    Cardinality({p \in Pids :
                    /\ processes[p].arrival_time <= gantt[k].start
                    /\ ExecutedUpTo(p, k - 1) < processes[p].burst_time})

BaselineRrDone == pc = "done" /\ algo = "RR" /\ strategy = "always_high"

(* C11: energy monotonicity -- for the same processes and quantum the    *)
(* total_energy of simulate_energy_efficient is at most that of          *)
(* simulate_rr under the baseline strategy, and strictly smaller when    *)
(* some slice is dispatched with a ready queue (running process          *)
(* included) of 5 or less.                                                *)
EnergyMonotone ==
    BaselineRrDone =>
       LET efficient == simulate_energy_efficient(processes, quantum)
       IN /\ efficient.total_energy <= result.total_energy
          /\ (\E k \in Occupied : QueueLenAt(k) <= 5) =>
                efficient.total_energy < result.total_energy

EnergyMonotoneWitness ==
    /\ BaselineRrDone
    /\ \E k \in Occupied : QueueLenAt(k) > 5
    /\ \E k \in Occupied : QueueLenAt(k) <= 2
    /\ simulate_energy_efficient(processes, quantum).total_energy
          < result.total_energy

(* first start and last end of process p in the timeline *)
FirstStart(p) ==
    CHOOSE s \in {gantt[k].start : k \in EntriesOf(p)} :
        \A k \in EntriesOf(p) : s <= gantt[k].start

LastEnd(p) ==
    CHOOSE e \in {gantt[k].end : k \in EntriesOf(p)} :
        \A k \in EntriesOf(p) : gantt[k].end <= e

Turnaround(p) == LastEnd(p) - processes[p].arrival_time
Waiting(p) == Turnaround(p) - processes[p].burst_time
Response(p) == FirstStart(p) - processes[p].arrival_time

(* the fraction r is the arithmetic mean of f over the input processes *)
IsMeanOf(r, f) ==
    r.den # 0 /\ r.num * Len(processes) = SumTo(f, Len(processes)) * r.den

(* the pids of the occupied entries in timeline order *)
RECURSIVE RunOrder(_)
RunOrder(k) ==
    IF k = 0 THEN <<>>
    ELSE IF gantt[k].pid = None THEN RunOrder(k - 1)
    ELSE Append(RunOrder(k - 1), gantt[k].pid)

DemoDone(a) == pc = "done" /\ algo = a /\ processes = demo_procs

(* C12: timing metrics -- avg_waiting_time, avg_turnaround_time and      *)
(* avg_response_time are the arithmetic means over all input processes   *)
(* of last_end - arrival - burst, last_end - arrival and first_start -   *)
(* arrival; on the demonstration input FCFS completes P1, P2, P3, P4 in  *)
(* that order with P1 in [0, 7) and an average waiting time of 4.75.     *)
TimingMetrics ==
    /\ pc = "done" /\ processes # <<>> =>
          /\ \A p \in Pids : EntriesOf(p) # {}
          /\ IsMeanOf(result.avg_waiting_time, [p \in Pids |-> Waiting(p)])
          /\ IsMeanOf(result.avg_turnaround_time,
                      [p \in Pids |-> Turnaround(p)])
          /\ IsMeanOf(result.avg_response_time, [p \in Pids |-> Response(p)])
    /\ DemoDone("FCFS") =>
          /\ RunOrder(Len(gantt)) = <<1, 2, 3, 4>>
          /\ gantt[1].pid = 1 /\ gantt[1].start = 0 /\ gantt[1].end = 7
          /\ result.avg_waiting_time.num * 100
                = 475 * result.avg_waiting_time.den

TimingMetricsWitness ==
    /\ DemoDone("FCFS")
    /\ result.avg_waiting_time = Ratio(19, 4)
    /\ result.avg_response_time = Ratio(19, 4)
    /\ result.avg_turnaround_time = Ratio(35, 4)

FreqLevels == {"low", "med", "high"}

(* time the occupied entries among the first k spend at a level *)
RECURSIVE LevelTime(_, _)
LevelTime(level, k) ==
    IF k = 0 THEN 0
    ELSE LevelTime(level, k - 1)
         + (IF gantt[k].pid # None /\ gantt[k].freq_level = level
            THEN Duration(k) ELSE 0)

(* C13: energy accounting -- every entry's frequency level is low, med   *)
(* or high; total_energy is the sum over the non-idle entries of         *)
(* power(level) * (end - start) with powers 10, 18 and 30; idle entries  *)
(* add nothing, so under the baseline strategy total_energy is 30 times  *)
(* the sum of the burst times.                                            *)
EnergyAccounting ==
    /\ \A k \in Slots : gantt[k].freq_level \in FreqLevels
    /\ pc = "done" =>
          /\ result.total_energy
                = 10 * LevelTime("low", Len(gantt))
                  + 18 * LevelTime("med", Len(gantt))
                  + 30 * LevelTime("high", Len(gantt))
          /\ strategy = "always_high" =>
                result.total_energy = 30 * TotalBurst

EnergyAccountingWitness ==
    /\ pc = "done" /\ strategy = "energy_aware"
    /\ IdleSlots # {}
    /\ LevelTime("low", Len(gantt)) >= 2
    /\ result.total_energy < 30 * TotalBurst

IsZero(r) == r.num = 0 /\ r.den # 0

(* C14: empty input -- each of the five simulate_* functions called with *)
(* no processes returns normally, with an empty timeline and             *)
(* avg_waiting_time, avg_turnaround_time, avg_response_time,             *)
(* cpu_utilization and total_energy all 0.                                *)
EmptyInput ==
    processes = <<>> =>
       /\ gantt = <<>>
       /\ pc = "loop" => ~LoopGoesOn
       /\ pc = "done" =>
             /\ result.gantt = <<>>
             /\ result.algorithm = AlgoName
             /\ IsZero(result.avg_waiting_time)
             /\ IsZero(result.avg_turnaround_time)
             /\ IsZero(result.avg_response_time)
             /\ IsZero(result.cpu_utilization)
             /\ result.total_energy = 0

EmptyInputWitness ==
    /\ processes = <<>> /\ pc = "done"
    /\ algo = "EERR"
    /\ result.avg_waiting_time = Ratio(0, 1)

(* ====================== Round Robin queue order ======================= *)
(* number of processes that have arrived by time t *)
ArrivedBy(t) ==
    Cardinality({k \in 1..Len(procs) : procs[k].arrival_time <= t})

(* a step of the RR family that appends a slice *)
SliceStep ==
    /\ algo \in RRFamily
    /\ Len(gantt') = Len(gantt) + 1
    /\ gantt'[Len(gantt')].pid # None

(* What the ready list must be after a slice: the queue behind the       *)
(* process that ran, then the arrivals up to the slice's end in arrival  *)
(* order, then the process that ran if it has time left.                 *)
RequeuedInOrder ==
    LET slice == gantt'[Len(gantt')]
        queue == ready \o SubSeq(procs, i + 1, ArrivedBy(time))
        late == SubSeq(procs, ArrivedBy(time) + 1, ArrivedBy(slice.end))
        ran == queue[1]
    IN /\ queue # <<>> /\ ran.pid = slice.pid
       /\ slice.start = time /\ time' = slice.end
       /\ IF remaining'[ran.pid] > 0
          THEN /\ ready' = Tail(queue) \o late \o <<ran>>
               /\ completed' = completed
          ELSE /\ ready' = Tail(queue) \o late
               /\ completed' = completed \cup {ran.pid}

(* a process that arrives during slice j or at its end runs between j    *)
(* and the next slice k of the same process                              *)
ArrivalsRunFirst ==
    \A j \in Occupied, k \in Occupied :
       j < k /\ gantt[j].pid = gantt[k].pid =>
          \A p \in Pids :
             /\ gantt[j].start < processes[p].arrival_time
             /\ processes[p].arrival_time <= gantt[j].end
             => \E m \in EntriesOf(p) : j < m /\ m < k

(* C15: RR re-queue order -- after each slice ending at t the processes  *)
(* not yet admitted with arrival <= t join the ready list in arrival     *)
(* order, then the process that just ran joins the back if it has time   *)
(* left (otherwise it is marked complete and never queued again);        *)
(* so a process that arrives during a slice or exactly at its end is     *)
(* dispatched before the preempted process runs again.                    *)
RequeueOrder ==
    /\ [][SliceStep => RequeuedInOrder]_vars
    /\ [](algo \in RRFamily =>
             /\ \A k \in 1..Len(ready) : ready[k].pid \notin completed
             /\ ArrivalsRunFirst)

RequeueOrderWitness ==
    /\ algo \in RRFamily /\ pc = "loop"
    /\ gantt # <<>> /\ Len(ready) >= 2
    /\ LET slice == gantt[Len(gantt)]
           back == ready[Len(ready)]
           newcomer == ready[Len(ready) - 1]
       IN /\ slice.pid = back.pid
          /\ slice.start < newcomer.arrival_time
          /\ newcomer.arrival_time <= slice.end
          /\ EntriesOf(newcomer.pid) = {}

(* time process p still needs when entry k begins *)
RemainingBefore(k) ==
    processes[gantt[k].pid].burst_time - ExecutedUpTo(gantt[k].pid, k - 1)

(* C16: RR slice length -- every occupied entry of the RR family lasts   *)
(* exactly min(quantum, remaining time before the slice); no slice is    *)
(* longer than the quantum and only the final slice of a process can be  *)
(* shorter; on the demonstration input with quantum 2, P3 completes in a *)
(* single slice of length 1.                                              *)
RrSliceLength ==
    /\ algo \in RRFamily =>
          \A k \in Occupied :
             /\ Duration(k) = Min(quantum, RemainingBefore(k))
             /\ Duration(k) <= quantum
             /\ Duration(k) < quantum =>
                   /\ ExecutedUpTo(gantt[k].pid, k)
                         = processes[gantt[k].pid].burst_time
                   /\ \A m \in EntriesOf(gantt[k].pid) : m <= k
    /\ DemoDone("RR") \/ DemoDone("EERR") =>
          /\ quantum = 2
          /\ Cardinality(EntriesOf(3)) = 1
          /\ \A k \in EntriesOf(3) : Duration(k) = 1

RrSliceLengthWitness ==
    /\ DemoDone("RR")
    /\ \E k \in EntriesOf(3) : gantt[k].start = 6 /\ gantt[k].end = 7
    /\ \E k \in EntriesOf(1) : Duration(k) = 1 /\ k = Len(gantt)
    /\ Cardinality(EntriesOf(1)) = 4

(* ====================== non-preemptive policies ======================= *)
NonPreemptive == algo \notin RRFamily

(* process q arrives while entry k is running *)
ArrivesDuring(q, k) ==
    /\ gantt[k].start < processes[q].arrival_time
    /\ processes[q].arrival_time < gantt[k].end

(* C17: non-preemption -- under FCFS, SJF and Priority each process      *)
(* occupies exactly one entry, of length burst_time; a process that      *)
(* arrives while another runs, even with a shorter burst or a more       *)
(* urgent priority, never splits or shortens the running entry.          *)
NonPreemption ==
    NonPreemptive =>
       /\ \A p \in Pids : Cardinality(EntriesOf(p)) <= 1
       /\ pc = "done" => \A p \in Pids : Cardinality(EntriesOf(p)) = 1
       /\ \A k \in Occupied :
             /\ Duration(k) = processes[gantt[k].pid].burst_time
             /\ \A q \in Pids :
                   ArrivesDuring(q, k) =>
                      \A m \in EntriesOf(q) : gantt[m].start >= gantt[k].end

NonPreemptionWitness ==
    /\ pc = "done" /\ algo = "PRIORITY"
    /\ \E k \in Occupied, q \in Pids :
          /\ ArrivesDuring(q, k)
          /\ processes[q].priority < processes[gantt[k].pid].priority
          /\ processes[q].burst_time < processes[gantt[k].pid].burst_time
          /\ gantt[k + 1].pid = q

(* ====================== frequency selection =========================== *)
LevelsUsed == {gantt[k].freq_level : k \in Occupied}

(* C18: load-aware frequency per slice -- in simulate_energy_efficient   *)
(* every occupied entry is 'low' if q <= 2, 'med' if 3 <= q <= 5 and     *)
(* 'high' if q >= 6, q the number of processes in the ready queue when   *)
(* the slice begins, the one about to run included and the arrivals      *)
(* during the slice not; with the baseline strategy every occupied       *)
(* entry is 'high'.                                                       *)
LoadAwareFrequency ==
    /\ algo = "EERR" =>
          \A k \in Occupied :
             /\ QueueLenAt(k) >= 1
             /\ QueueLenAt(k) <= 2 => gantt[k].freq_level = "low"
             /\ 3 <= QueueLenAt(k) /\ QueueLenAt(k) <= 5 =>
                   gantt[k].freq_level = "med"
             /\ QueueLenAt(k) >= 6 => gantt[k].freq_level = "high"
    /\ strategy = "always_high" =>
          \A k \in Occupied : gantt[k].freq_level = "high"

LoadAwareFrequencyWitness ==
    /\ pc = "done" /\ algo = "EERR"
    /\ LevelsUsed = FreqLevels
    /\ \E k \in Occupied : QueueLenAt(k) = 2
    /\ \E k \in Occupied : QueueLenAt(k) = 3
    /\ \E k \in Occupied : QueueLenAt(k) = 5
    /\ \E k \in Occupied : QueueLenAt(k) = 6

(* ====================== Energy-Efficient RR against RR ================ *)
SameFraction(r, s) == r.den # 0 /\ s.den # 0 /\ r.num * s.den = s.num * r.den

(* entry k of timelines g and h has the same occupant and interval *)
SameSlot(g, h, k) ==
    /\ g[k].pid = h[k].pid
    /\ g[k].start = h[k].start
    /\ g[k].end = h[k].end

(* C19: Energy-Efficient RR refines plain RR -- for the same processes   *)
(* and quantum the two timelines have the same number of entries with    *)
(* the same occupant, start and end in every position (the frequency     *)
(* level alone may differ), hence the same average waiting, turnaround   *)
(* and response times and the same cpu_utilization.                      *)
EfficientRefinesRr ==
    BaselineRrDone =>
       LET efficient == simulate_energy_efficient(processes, quantum)
       IN /\ Len(efficient.gantt) = Len(result.gantt)
          /\ \A k \in 1..Len(result.gantt) :
                SameSlot(efficient.gantt, result.gantt, k)
          /\ SameFraction(efficient.avg_waiting_time, result.avg_waiting_time)
          /\ SameFraction(efficient.avg_turnaround_time,
                          result.avg_turnaround_time)
          /\ SameFraction(efficient.avg_response_time,
                          result.avg_response_time)
          /\ SameFraction(efficient.cpu_utilization, result.cpu_utilization)

EfficientRefinesRrWitness ==
    /\ BaselineRrDone /\ quantum = 1
    /\ IdleSlots # {}
    /\ \E p \in Pids : Cardinality(EntriesOf(p)) >= 2
    /\ LET efficient == simulate_energy_efficient(processes, quantum)
       IN /\ Len(efficient.gantt) = Len(gantt)
          /\ \E k \in Occupied :
                efficient.gantt[k].freq_level # gantt[k].freq_level
          /\ efficient.cpu_utilization.num < 100 * efficient.cpu_utilization.den

(* ====================== waiting and response ========================== *)
(* C20: waiting/response relation -- for valid input every process has   *)
(* waiting >= 0 and 0 <= response <= waiting under every policy; under   *)
(* FCFS, SJF and Priority response equals waiting for every process, so  *)
(* avg_response_time equals avg_waiting_time; every process present in   *)
(* the timeline has both a first start and a completion, so the          *)
(* fallback of response to waiting in compute_metrics is never taken.    *)
WaitingResponse ==
    /\ pc = "done" =>
          /\ \A p \in Pids :
                /\ EntriesOf(p) # {}
                /\ Waiting(p) >= 0
                /\ 0 <= Response(p) /\ Response(p) <= Waiting(p)
                /\ NonPreemptive => Response(p) = Waiting(p)
          /\ NonPreemptive =>
                SameFraction(result.avg_response_time,
                             result.avg_waiting_time)
    /\ \A p \in Pids :
          LET st == MetricsState(processes, gantt)[p]
          IN /\ EntriesOf(p) # {} <=> st.completion # <<>>
             /\ st.completion # <<>> =>
                   /\ st.start # <<>> /\ st.response # <<>>
                   /\ st.start[1] = FirstStart(p)
                   /\ st.response[1] = FirstStart(p)
                   /\ st.completion[1] = LastEnd(p)

WaitingResponseWitness ==
    /\ pc = "done" /\ algo = "RR"
    /\ \E p \in Pids : 0 < Response(p) /\ Response(p) < Waiting(p)
    /\ \E p \in Pids : 0 = Response(p) /\ Response(p) < Waiting(p)
    /\ ~SameFraction(result.avg_response_time, result.avg_waiting_time)

=============================================================================
